---- MODULE Spec2Model ----
(***************************************************************************)
(* workstyle: renames the workspaces of a sway / i3 / Hyprland session to  *)
(* the icons of the windows they hold.                                     *)
(*                                                                         *)
(* Strings are sequences of one-character strings, so that substring      *)
(* search, lower-casing and concatenation are computed and not assumed.    *)
(* Option<T> is a record [some, v].                                        *)
(***************************************************************************)
EXTENDS Integers, Sequences, FiniteSets, TLC

VARIABLES
  \* ---- label formatting pipeline, one function at a time (SpecFn)
  fn_pc, fn_file, fn_config, fn_node, fn_windows, fn_icons, fn_label,
  fn_separator,   \* what Config::separator returned, once it was asked
  \* ---- the sway / i3 session that main.rs talks to
  be_up,          \* the IPC socket accepts connections
  be_ws,          \* the workspaces, in the order get_workspaces reports them
  stream,         \* the items the subscribed event stream has not yielded yet
  \* ---- the process (main.rs)
  m_pc,           \* where main is
  m_alive,        \* the connections main opened are still open
  m_file,         \* the content of the configuration file
  m_event,        \* the stream item the closure is running for
  m_workspaces,   \* workspaces_in_node(&tree) of this pass
  m_list,         \* wm.get_workspaces() of this pass
  m_idx,          \* the workspace rename_workspaces is at
  m_cmds,         \* the rename commands of this pass, with what the backend said
  \* ---- the backends behind window_manager.rs, and a caller of WindowManager
  sway_up,        \* the sway / i3 socket accepts connections
  hypr_up,        \* the Hyprland control endpoint answers
  wm_handle,      \* the variant of the WindowManager the caller holds
  wm_last,        \* the last connect: its arguments and what it touched
  wm_events,      \* SwayOrI3.events: the items not yielded yet
  wm_open,        \* SwayOrI3.events: the subscribed connection is open
  wm_chan,        \* Hyprland.rx: the notifications not received yet
  wm_listener,    \* the listener thread of the handle is running
  wm_orphans,     \* listener threads still running whose receiver is dropped
  wm_result,      \* what the last wait_for_event returned
  wm_fired,       \* hooks the listener of the handle was called for
  wm_received,    \* wait_for_event calls of the handle that returned Ok
  \* ---- the Hyprland session and one get_windows_in_each_workspace call
  hy_up,          \* Hyprland answers requests
  hy_ws,          \* the ids of its workspaces
  hy_clients,     \* its clients, in the order Clients::get reports them
  hy_pc,          \* where the call is
  hy_snapshot,    \* the replies of Workspaces::get and Clients::get of the call
  hy_result       \* what the call returned

fn_vars == <<fn_pc, fn_file, fn_config, fn_node, fn_windows, fn_icons, fn_label,
             fn_separator>>

be_vars == <<be_up, be_ws, stream>>

m_vars == <<m_pc, m_alive, m_file, m_event, m_workspaces, m_list, m_idx, m_cmds>>

wm_vars == <<sway_up, hypr_up, wm_handle, wm_last, wm_events, wm_open, wm_chan,
             wm_listener, wm_orphans, wm_result, wm_fired, wm_received>>

hy_vars == <<hy_up, hy_ws, hy_clients, hy_pc, hy_snapshot, hy_result>>

vars == <<fn_vars, be_vars, m_vars, wm_vars, hy_vars>>

-----------------------------------------------------------------------------
(* Bounds of the model *)

\* most windows under one generated workspace node
MaxWindows == 2
\* most icon rules in one generated configuration file
MaxRules == 2
\* most workspaces of the session
MaxWs == 2
\* most windows on one workspace of the session
MaxWsWindows == 1
\* most events waiting in the subscribed stream
MaxQueue == 1
\* most notifications waiting in the channel of the Hyprland listener
MaxChan == 2
\* most listener threads left running by dropped handles
MaxOrphans == 2
\* most hooks fired during the life of one handle
MaxHooks == 3
\* most workspaces of the Hyprland session (their ids are 1..MaxHyWs)
MaxHyWs == 2
\* most clients of the Hyprland session
MaxClients == 2

-----------------------------------------------------------------------------
(* Strings and options *)

None == [some |-> FALSE, v |-> <<>>]
Some(s) == [some |-> TRUE, v |-> s]

UpperChars == <<"A","B","C","D","E","F","G","H","I","J","K","L","M",
                "N","O","P","Q","R","S","T","U","V","W","X","Y","Z">>
LowerChars == <<"a","b","c","d","e","f","g","h","i","j","k","l","m",
                "n","o","p","q","r","s","t","u","v","w","x","y","z">>

\* char::to_lowercase on the alphabet of the model
lower_char(c) ==
  IF \E i \in 1..Len(UpperChars) : UpperChars[i] = c
  THEN LowerChars[CHOOSE i \in 1..Len(UpperChars) : UpperChars[i] = c]
  ELSE c

\* str::to_lowercase
to_lowercase(s) == [i \in 1..Len(s) |-> lower_char(s[i])]

\* str::contains: p occurs in s as a contiguous substring
contains(s, p) ==
  \E i \in 0..(Len(s) - Len(p)) : SubSeq(s, i + 1, i + Len(p)) = p

\* the strings the model uses
S_firefox == <<"f","i","r","e","f","o","x">>
S_fire == <<"f","i","r","e">>
S_chromium == <<"c","h","r","o","m","i","u","m">>
S_Chromium_title == <<"A"," ","-"," ","C","h","r","o","m","i","u","m">>
S_foot == <<"f","o","o","t">>
S_xterm == <<"x","t","e","r","m">>
S_other == <<"o","t","h","e","r">>
S_scratch == <<"_","_","i","3","_","s","c","r","a","t","c","h">>
S_web == <<"w","e","b">>
S_Slack == <<"S","l","a","c","k">>
S_slack == <<"s","l","a","c","k">>

\* format!("{}", n) for an i32
RECURSIVE decimal(_)
decimal(n) ==
  LET digits == <<"0","1","2","3","4","5","6","7","8","9">>
  IN IF n < 0 THEN <<"-">> \o decimal(0 - n)
     ELSE IF n < 10 THEN <<digits[n + 1]>>
     ELSE decimal(n \div 10) \o <<digits[(n % 10) + 1]>>

-----------------------------------------------------------------------------
(* Nodes of the tree the backend reports (swayipc Node, the fields used) *)

Node(t, name, app_id, class, nodes, floating_nodes) ==
  [node_type |-> t, name |-> name, app_id |-> app_id,
   window_properties_class |-> class,
   nodes |-> nodes, floating_nodes |-> floating_nodes]

Window(name, app_id, class) ==
  [name |-> name, app_id |-> app_id, window_properties_class |-> class]

NoWindow == [some |-> FALSE, v |-> Window(None, None, None)]

\* NodeExt::is_workspace
is_workspace(self) ==
  self.name # Some(S_scratch) /\ self.node_type = "Workspace"

\* NodeExt::is_window
is_window(self) == self.node_type \in {"Con", "FloatingCon"}

\* Window::from_node (window_manager.rs)
Window_from_node(node) ==
  IF is_window(node)
  THEN IF node.name.some \/ node.app_id.some \/ node.window_properties_class.some
       THEN [some |-> TRUE,
             v |-> Window(node.name, node.app_id, node.window_properties_class)]
       ELSE NoWindow
  ELSE NoWindow

\* Window::from_node (main.rs)
from_node(node) ==
  IF node.node_type \in {"Con", "FloatingCon"}
  THEN IF node.name.some \/ node.app_id.some \/ node.window_properties_class.some
       THEN [some |-> TRUE,
             v |-> Window(node.name, node.app_id, node.window_properties_class)]
       ELSE NoWindow
  ELSE NoWindow

\* Window::matches (window_manager.rs): only the window's fields are lower-cased
Window_matches(self, pattern) ==
  \/ (self.name.some /\ contains(to_lowercase(self.name.v), pattern))
  \/ (self.app_id.some /\ contains(to_lowercase(self.app_id.v), pattern))
  \/ (self.window_properties_class.some
        /\ contains(to_lowercase(self.window_properties_class.v), pattern))

\* Window::matches (main.rs)
matches(self, pattern) ==
  \/ (self.name.some /\ contains(to_lowercase(self.name.v), pattern))
  \/ (self.app_id.some /\ contains(to_lowercase(self.app_id.v), pattern))
  \/ (self.window_properties_class.some
        /\ contains(to_lowercase(self.window_properties_class.v), pattern))

\* a mutant of NodeExt::windows_in_node: floating children are not walked
RECURSIVE NodeExt_windows_in_node_NoFloating(_)
NodeExt_windows_in_node_NoFloating(self) ==
  LET RECURSIVE walk(_, _)
      walk(children, i) ==
        IF i > Len(children) THEN <<>>
        ELSE LET node == children[i]
                 own == IF is_window(node) /\ Window_from_node(node).some
                        THEN <<Window_from_node(node).v>> ELSE <<>>
             IN NodeExt_windows_in_node_NoFloating(node) \o own
                  \o walk(children, i + 1)
  IN walk(self.nodes, 1)

\* a mutant of NodeExt::windows_in_node: floating children are walked first
RECURSIVE NodeExt_windows_in_node_FloatingFirst(_)
NodeExt_windows_in_node_FloatingFirst(self) ==
  LET RECURSIVE walk(_, _)
      walk(children, i) ==
        IF i > Len(children) THEN <<>>
        ELSE LET node == children[i]
                 own == IF is_window(node) /\ Window_from_node(node).some
                        THEN <<Window_from_node(node).v>> ELSE <<>>
             IN NodeExt_windows_in_node_FloatingFirst(node) \o own
                  \o walk(children, i + 1)
  IN walk(self.floating_nodes \o self.nodes, 1)

\* NodeExt::windows_in_node: the windows under a node, children then floating
\* children, each child's own windows before the child itself
RECURSIVE NodeExt_windows_in_node(_)
NodeExt_windows_in_node(self) ==
  LET RECURSIVE walk(_, _)
      walk(children, i) ==
        IF i > Len(children) THEN <<>>
        ELSE LET node == children[i]
                 own == IF is_window(node) /\ Window_from_node(node).some
                        THEN <<Window_from_node(node).v>> ELSE <<>>
             IN NodeExt_windows_in_node(node) \o own \o walk(children, i + 1)
  IN walk(self.nodes \o self.floating_nodes, 1)

\* windows_in_node (main.rs)
RECURSIVE windows_in_node(_)
windows_in_node(node) ==
  LET RECURSIVE walk(_, _)
      walk(children, i) ==
        IF i > Len(children) THEN <<>>
        ELSE LET child == children[i]
                 own == IF from_node(child).some
                        THEN <<from_node(child).v>> ELSE <<>>
             IN windows_in_node(child) \o own \o walk(children, i + 1)
  IN walk(node.nodes \o node.floating_nodes, 1)

-----------------------------------------------------------------------------
(* Icons (main.rs) *)

\* a mutant of pretty_window: the last matching rule wins
pretty_window_LastMatch(window, icon_mappings, fallback_icon) ==
  LET hits == {i \in 1..Len(icon_mappings) : matches(window, icon_mappings[i][1])}
  IN IF hits = {} THEN fallback_icon
     ELSE icon_mappings[CHOOSE i \in hits : \A j \in hits : j <= i][2]

\* pretty_window: the icon of the first rule that matches, else the fallback
pretty_window(window, icon_mappings, fallback_icon) ==
  LET RECURSIVE scan(_)
      scan(i) ==
        IF i > Len(icon_mappings) THEN fallback_icon
        ELSE IF matches(window, icon_mappings[i][1]) THEN icon_mappings[i][2]
        ELSE scan(i + 1)
  IN scan(1)

\* a mutant of pretty_windows: each icon is put in front of the label
pretty_windows_Prepend(windows, icon_mappings, fallback_icon) ==
  LET RECURSIVE loop(_, _)
      loop(s, i) ==
        IF i > Len(windows) THEN s
        ELSE loop(pretty_window(windows[i], icon_mappings, fallback_icon)
                    \o <<" ">> \o s, i + 1)
  IN loop(<<>>, 1)

\* pretty_windows: every window's icon followed by one space, in list order
pretty_windows(windows, icon_mappings, fallback_icon) ==
  LET RECURSIVE loop(_, _)
      loop(s, i) ==
        IF i > Len(windows) THEN s
        ELSE loop(s \o pretty_window(windows[i], icon_mappings, fallback_icon)
                    \o <<" ">>, i + 1)
  IN loop(<<>>, 1)

-----------------------------------------------------------------------------
(* Configuration (config.rs) *)

DEFAULT_FALLBACK_ICON == <<"-">>

DEFAULT_SEPARATOR == <<":", " ">>

\* Other, and Other::default()
Other(fallback, sep, dedup) ==
  [fallback_icon |-> fallback, separator |-> sep, deduplicate_icons |-> dedup]

Other_default == Other(None, None, FALSE)

\* Config::default(): mappings is an IndexMap, a sequence of <<key, value>>
Config_default == [mappings |-> <<>>, other |-> Other_default]

\* IndexMap::insert: a new key goes last, a known key keeps its place
IndexMap_insert(m, k, v) ==
  IF \E i \in 1..Len(m) : m[i][1] = k
  THEN [i \in 1..Len(m) |-> IF m[i][1] = k THEN <<k, v>> ELSE m[i]]
  ELSE Append(m, <<k, v>>)

\* a mutant of IndexMap::insert: a sorted map, a new key goes before the
\* longer keys
IndexMap_insert_Sorted(m, k, v) ==
  IF \E i \in 1..Len(m) : m[i][1] = k
  THEN [i \in 1..Len(m) |-> IF m[i][1] = k THEN <<k, v>> ELSE m[i]]
  ELSE LET before == SelectSeq(m, LAMBDA e : Len(e[1]) <= Len(k))
           after == SelectSeq(m, LAMBDA e : Len(e[1]) > Len(k))
       IN before \o <<<<k, v>>>> \o after

\* Visitor::visit_map: the entries of the file in the order the parser gives
\* them; [other] fills the options, a string value is a rule, anything else is
\* an error
visit_map(map) ==
  LET RECURSIVE loop(_, _)
      loop(config, i) ==
        IF i > Len(map) THEN [ok |-> TRUE, config |-> config]
        ELSE LET e == map[i]
             IN IF e.key = S_other
                THEN IF e.kind = "table"
                     THEN loop([config EXCEPT !.other = e.other], i + 1)
                     ELSE [ok |-> FALSE, config |-> Config_default]
                ELSE IF e.kind = "string"
                     THEN loop([config EXCEPT !.mappings =
                                  IndexMap_insert(config.mappings, e.key, e.value)],
                               i + 1)
                     ELSE [ok |-> FALSE, config |-> Config_default]
  IN loop(Config_default, 1)

\* a mutant of Config::fallback_icon: the configured icon is not looked at
fallback_icon_AlwaysDefault(self) == DEFAULT_FALLBACK_ICON

\* Config::fallback_icon
fallback_icon(self) ==
  IF self.other.fallback_icon.some THEN self.other.fallback_icon.v
  ELSE DEFAULT_FALLBACK_ICON

\* Config::separator: the configured separator unless an icon or the fallback
\* icon contains it, DEFAULT_SEPARATOR otherwise and when none is configured
separator(self) ==
  IF self.other.separator.some
  THEN LET sep == self.other.separator.v
       IN IF \E i \in 1..Len(self.mappings) : contains(self.mappings[i][2], sep)
          THEN DEFAULT_SEPARATOR
          ELSE IF contains(fallback_icon(self), sep)
               THEN DEFAULT_SEPARATOR
               ELSE sep
  ELSE DEFAULT_SEPARATOR

\* config::get_icon_mappings, as main.rs calls it: the rules, in order
get_icon_mappings(config) == config.mappings

\* config::get_fallback_icon, as main.rs calls it
get_fallback_icon(config) == fallback_icon(config)

-----------------------------------------------------------------------------
(* Inputs of the label formatting pipeline *)

W_firefox == Window(None, Some(S_firefox), None)
W_chromium == Window(Some(S_Chromium_title), None, Some(S_chromium))
W_foot == Window(Some(S_foot), Some(S_foot), None)
W_xterm == Window(Some(S_xterm), None, None)
W_noid == Window(None, None, None)
W_Slack == Window(None, None, Some(S_Slack))
W_slack == Window(None, None, Some(S_slack))

WindowPool == {W_firefox, W_chromium, W_foot, W_xterm, W_noid}

Leaf(t, w) == Node(t, w.name, w.app_id, w.window_properties_class, <<>>, <<>>)

\* a workspace node holding the windows l: side by side, or all but the last
\* inside a split container, or the last one floating
WS_flat(name, l) ==
  Node("Workspace", name, None, None,
       [i \in 1..Len(l) |-> Leaf("Con", l[i])], <<>>)

WS_nested(name, l) ==
  Node("Workspace", name, None, None,
       << Node("Con", None, None, None,
               [i \in 1..(Len(l) - 1) |-> Leaf("Con", l[i])], <<>>),
          Leaf("Con", l[Len(l)]) >>, <<>>)

WS_floating(name, l) ==
  Node("Workspace", name, None, None,
       [i \in 1..(Len(l) - 1) |-> Leaf("Con", l[i])],
       << Leaf("FloatingCon", l[Len(l)]) >>)

WindowLists == UNION {[1..n -> WindowPool] : n \in 0..MaxWindows}

WS_FCT == WS_nested(Some(<<"1">>), <<W_firefox, W_chromium, W_foot>>)

\* a workspace node with windows three levels down: a named split container
\* holding a window and a floating window, and a floating container without
\* identity holding a window and a container without identity
WS_deep ==
  Node("Workspace", Some(<<"1">>), None, None,
       << Node("Con", Some(S_xterm), None, None,
               << Leaf("Con", W_firefox) >>,
               << Leaf("FloatingCon", W_foot) >>) >>,
       << Node("FloatingCon", None, None, None,
               << Leaf("Con", W_chromium), Leaf("Con", W_noid) >>, <<>>) >>)

WorkspaceNodes ==
  {WS_flat(Some(<<"1">>), l) : l \in WindowLists}
    \cup {WS_nested(Some(<<"1">>), l) : l \in WindowLists \ {<<>>}}
    \cup {WS_floating(Some(<<"1">>), l) : l \in WindowLists \ {<<>>}}
    \cup {WS_FCT, WS_deep}

Rule(pattern, icon) ==
  [key |-> pattern, kind |-> "string", value |-> icon, other |-> Other_default]

OtherTable(o) == [key |-> S_other, kind |-> "table", value |-> <<>>, other |-> o]

RulePool == {Rule(S_firefox, <<"F">>), Rule(S_chromium, <<"C">>),
             Rule(S_foot, <<"T">>), Rule(S_fire, <<"X">>)}

\* rule lists without a repeated key: a TOML table has every key once
RuleLists ==
  {l \in UNION {[1..n -> RulePool] : n \in 0..MaxRules} :
     \A i, j \in 1..Len(l) : i # j => l[i].key # l[j].key}

File_FCT == <<Rule(S_firefox, <<"F">>), Rule(S_chromium, <<"C">>), Rule(S_foot, <<"T">>)>>

\* a rule whose value is not a string
File_Bad == <<[key |-> S_foot, kind |-> "table", value |-> <<>>, other |-> Other_default]>>

ConfigFiles ==
  RuleLists
    \cup {<<OtherTable(Other(None, None, TRUE))>> \o l : l \in RuleLists}
    \cup {l \o <<OtherTable(Other(Some(<<"?">>), None, FALSE))>> : l \in RuleLists}
    \cup {l \o <<OtherTable(Other(Some(<<>>), None, FALSE))>> : l \in RuleLists}
    \cup {File_FCT, File_Bad}

\* configuration files with and without a separator, next to icons and
\* fallback icons that hold the separator, the default separator, or neither
SeparatorFiles ==
  {l \o <<OtherTable(Other(fb, sep, FALSE))>> :
     l \in {<<>>, <<Rule(S_firefox, <<"F">>)>>, <<Rule(S_firefox, <<"F", ":", " ">>)>>},
     fb \in {None, Some(<<"?">>), Some(<<":", " ", "?">>)},
     sep \in {None, Some(<<"|">>), Some(<<"F">>), Some(<<"?">>), Some(<<>>)}}

\* the rule of a chat program, written with and without a capital
CaseFiles == {<<Rule(S_Slack, <<"S">>)>>, <<Rule(S_slack, <<"S">>)>>}

\* workspace nodes with the window of that program, its class written with
\* and without a capital
CaseNodes ==
  {WS_flat(Some(<<"1">>), l) : l \in {<<W_Slack>>, <<W_slack>>, <<W_slack, W_foot>>}}

\* what the label formatting pipeline is run on: a configuration file and a
\* workspace node
FnInputs ==
  (ConfigFiles \X WorkspaceNodes)
    \cup (SeparatorFiles \X {WS_flat(Some(<<"1">>), <<W_firefox>>)})
    \cup (CaseFiles \X CaseNodes)

-----------------------------------------------------------------------------
(* Workspace extraction *)

\* BTreeMap::insert on a map from names to window lists
BTreeMap_insert(m, k, v) ==
  [x \in (DOMAIN m) \cup {k} |-> IF x = k THEN v ELSE m[x]]

EmptyMap == [x \in {} |-> <<>>]

\* workspaces_in_node (main.rs): every node of type Workspace is a key, its
\* name unwrapped (ok = FALSE stands for the panic of unwrap on None)
RECURSIVE workspaces_in_node(_)
workspaces_in_node(node) ==
  LET RECURSIVE loop(_, _)
      loop(res, i) ==
        IF ~res.ok \/ i > Len(node.nodes) THEN res
        ELSE LET child == node.nodes[i]
             IN IF child.node_type = "Workspace"
                THEN IF child.name.some
                     THEN loop([ok |-> TRUE,
                                map |-> BTreeMap_insert(res.map, child.name.v,
                                                        windows_in_node(child))],
                               i + 1)
                     ELSE [ok |-> FALSE, map |-> EmptyMap]
                ELSE LET sub == workspaces_in_node(child)
                         RECURSIVE merge(_, _)
                         merge(m, ks) ==
                           IF ks = {} THEN m
                           ELSE LET k == CHOOSE x \in ks : TRUE
                                IN merge(BTreeMap_insert(m, k, sub.map[k]), ks \ {k})
                     IN IF sub.ok
                        THEN loop([ok |-> TRUE,
                                   map |-> merge(res.map, DOMAIN sub.map)], i + 1)
                        ELSE sub
  IN loop([ok |-> TRUE, map |-> EmptyMap], 1)

\* NodeExt::workspaces_in_node (window_manager.rs): a node is a key when
\* is_workspace holds of it; a workspace without a name is an error
RECURSIVE NodeExt_workspaces_in_node(_)
NodeExt_workspaces_in_node(self) ==
  LET RECURSIVE loop(_, _)
      loop(res, i) ==
        IF ~res.ok \/ i > Len(self.nodes) THEN res
        ELSE LET node == self.nodes[i]
             IN IF is_workspace(node)
                THEN IF node.name.some
                     THEN loop([ok |-> TRUE,
                                map |-> BTreeMap_insert(res.map, node.name.v,
                                                        NodeExt_windows_in_node(node))],
                               i + 1)
                     ELSE [ok |-> FALSE, map |-> EmptyMap]
                ELSE LET sub == NodeExt_workspaces_in_node(node)
                         RECURSIVE merge(_, _)
                         merge(m, ks) ==
                           IF ks = {} THEN m
                           ELSE LET k == CHOOSE x \in ks : TRUE
                                IN merge(BTreeMap_insert(m, k, sub.map[k]), ks \ {k})
                     IN IF sub.ok
                        THEN loop([ok |-> TRUE,
                                   map |-> merge(res.map, DOMAIN sub.map)], i + 1)
                        ELSE sub
  IN loop([ok |-> TRUE, map |-> EmptyMap], 1)

-----------------------------------------------------------------------------
(* The sway / i3 session: what the IPC calls of main.rs answer *)

\* the number i3 and sway give a workspace: the digits its name starts with,
\* -1 when there are none
name_to_number(name) ==
  LET digits == <<"0","1","2","3","4","5","6","7","8","9">>
      IsDigit(c) == \E d \in 1..10 : digits[d] = c
      Value(c) == (CHOOSE d \in 1..10 : digits[d] = c) - 1
      RECURSIVE parse(_, _)
      parse(acc, i) ==
        IF i > Len(name) \/ ~IsDigit(name[i]) THEN acc
        ELSE parse(acc * 10 + Value(name[i]), i + 1)
  IN IF name = <<>> \/ ~IsDigit(name[1]) THEN 0 - 1 ELSE parse(0, 1)

Workspace(name, windows) ==
  [name |-> name, num |-> name_to_number(name), windows |-> windows]

\* the tree of a session: root, the internal output with the scratchpad
\* workspace (one window on it), and one output with the workspace nodes
Tree(wsnodes) ==
  LET content(children) ==
        Node("Con", Some(<<"c","o","n","t","e","n","t">>), None, None, children, <<>>)
      scratch ==
        Node("Workspace", Some(S_scratch), None, None, <<>>,
             <<Leaf("FloatingCon", W_foot)>>)
  IN Node("Root", Some(<<"r","o","o","t">>), None, None,
          << Node("Output", Some(<<"_","_","i","3">>), None, None,
                  <<content(<<scratch>>)>>, <<>>),
             Node("Output", Some(<<"e","D","P">>), None, None,
                  <<Node("Dockarea", Some(<<"t","o","p">>), None, None, <<>>, <<>>),
                    content(wsnodes)>>, <<>>) >>,
          <<>>)

\* the workspace nodes of the workspaces ws
WsNodes(ws) ==
  [i \in 1..Len(ws) |->
     IF Len(ws[i].windows) <= 1 THEN WS_flat(Some(ws[i].name), ws[i].windows)
     ELSE WS_nested(Some(ws[i].name), ws[i].windows)]

\* get_tree: the tree of the workspaces of the session
get_tree(ws) == Tree(WsNodes(ws))

\* what get_tree may answer: the tree of the session, or that tree with a
\* workspace node whose name is null after the named ones (Node.name is an
\* Option<String>)
TreeReplies(ws) ==
  {get_tree(ws), Tree(WsNodes(ws) \o <<WS_flat(None, <<>>)>>)}

\* get_workspaces: name and number of every workspace; the scratchpad
\* workspace is not among them
get_workspaces(ws) == [i \in 1..Len(ws) |-> [name |-> ws[i].name, num |-> ws[i].num]]

\* run_command("rename workspace "old" to "new""): one sub-result; it is a
\* failure when no workspace is named old or another workspace is named new
run_rename(ws, old, new) ==
  IF /\ \E i \in 1..Len(ws) : ws[i].name = old
     /\ ~(\E j \in 1..Len(ws) : ws[j].name = new /\ ws[j].name # old)
  THEN [ok |-> TRUE,
        ws |-> [i \in 1..Len(ws) |->
                  IF ws[i].name = old THEN Workspace(new, ws[i].windows) ELSE ws[i]]]
  ELSE [ok |-> FALSE, ws |-> ws]

MainWindowPool == {W_firefox}

\* the kinds of event the session reports
WindowChanges == {"new", "close", "focus"}
WorkspaceChanges == {"init", "empty", "focus"}

Event(class, change) == [ok |-> TRUE, class |-> class, change |-> change]
ErrItem == [ok |-> FALSE, class |-> "error", change |-> "error"]
NoEvent == [ok |-> FALSE, class |-> "none", change |-> "none"]

\* subscribe(&[EventType::Window]) of main: the event types of the stream
Subscribed == {"window"}

\* the session reports an event: it reaches the stream of a live subscription
\* to its type
Emit(class, change) ==
  IF m_alive /\ m_pc \notin {"start"} /\ class \in Subscribed
  THEN /\ Len(stream) < MaxQueue
       /\ stream' = Append(stream, Event(class, change))
  ELSE UNCHANGED stream

\* the session is watched: what it does once the process has lost it or has
\* ended changes nothing the process does
Watched == be_up /\ (m_pc = "start" \/ m_alive)

BE_OpenWindow ==
  /\ Watched
  /\ \E i \in 1..Len(be_ws) : \E w \in MainWindowPool :
       /\ Len(be_ws[i].windows) < MaxWsWindows
       /\ be_ws' = [be_ws EXCEPT ![i].windows = Append(@, w)]
  /\ Emit("window", "new")
  /\ UNCHANGED <<be_up, m_vars, fn_vars, wm_vars, hy_vars>>

BE_CloseWindow ==
  /\ Watched
  /\ \E i \in 1..Len(be_ws) :
       /\ be_ws[i].windows # <<>>
       /\ be_ws' = [be_ws EXCEPT ![i].windows = SubSeq(@, 1, Len(@) - 1)]
  /\ Emit("window", "close")
  /\ UNCHANGED <<be_up, m_vars, fn_vars, wm_vars, hy_vars>>

\* a window event that changes neither the workspaces nor their windows
BE_WindowEvent ==
  /\ Watched
  /\ \E i \in 1..Len(be_ws) : be_ws[i].windows # <<>>
  /\ \E change \in WindowChanges \ {"new", "close"} : Emit("window", change)
  /\ UNCHANGED <<be_up, be_ws, m_vars, fn_vars, wm_vars, hy_vars>>

\* the names a new workspace can have: a number, or a word
NewWorkspaceNames == {decimal(n) : n \in 1..MaxWs} \cup {S_web}

\* the place of a workspace in the list: by number, the unnumbered ones last
ListOrder(num) == IF num < 0 THEN MaxWs + 1 ELSE num

BE_AddWorkspace ==
  /\ Watched
  /\ Len(be_ws) < MaxWs
  /\ \E name \in NewWorkspaceNames :
       LET n == name_to_number(name)
       IN /\ \A i \in 1..Len(be_ws) : be_ws[i].num # n
          /\ be_ws' =
               LET lower == SelectSeq(be_ws, LAMBDA w : ListOrder(w.num) < ListOrder(n))
                   higher == SelectSeq(be_ws, LAMBDA w : ListOrder(w.num) > ListOrder(n))
               IN lower \o <<Workspace(name, <<>>)>> \o higher
  /\ Emit("workspace", "init")
  /\ UNCHANGED <<be_up, m_vars, fn_vars, wm_vars, hy_vars>>

BE_RemoveWorkspace ==
  /\ Watched
  /\ Len(be_ws) > 1
  /\ \E i \in 1..Len(be_ws) :
       /\ be_ws[i].windows = <<>>
       /\ be_ws' = SubSeq(be_ws, 1, i - 1) \o SubSeq(be_ws, i + 1, Len(be_ws))
  /\ Emit("workspace", "empty")
  /\ UNCHANGED <<be_up, m_vars, fn_vars, wm_vars, hy_vars>>

BE_FocusWorkspace ==
  /\ Watched
  /\ Emit("workspace", "focus")
  /\ UNCHANGED <<be_up, be_ws, m_vars, fn_vars, wm_vars, hy_vars>>

\* the session ends: its workspaces and its socket are gone and every
\* connection to it is closed
BE_Down ==
  /\ be_up
  /\ be_up' = FALSE
  /\ be_ws' = <<>>
  /\ m_alive' = FALSE
  /\ UNCHANGED <<stream, m_pc, m_file, m_event, m_workspaces, m_list,
                 m_idx, m_cmds, fn_vars, wm_vars, hy_vars>>

-----------------------------------------------------------------------------
(* The process: main of main.rs *)

IdleMap == [ok |-> TRUE, map |-> EmptyMap]

\* the process variables before main has done anything
MainIdle ==
  /\ m_pc = "start"
  /\ m_alive = FALSE
  /\ m_event = NoEvent
  /\ m_workspaces = IdleMap
  /\ m_list = <<>>
  /\ m_idx = 0
  /\ m_cmds = <<>>

MainConfigFiles == {File_FCT}

MainInit ==
  /\ MainIdle
  /\ m_file \in MainConfigFiles
  /\ be_up \in BOOLEAN
  /\ be_ws = <<Workspace(decimal(1), <<>>)>>
  /\ stream = <<>>

\* main, lines 150-155: two connections, the second subscribed to window
\* events; unwrap panics when the socket is not there
Main_Connect ==
  /\ m_pc = "start"
  /\ IF be_up
     THEN /\ m_alive' = TRUE
          /\ m_pc' = "waiting"
     ELSE /\ m_pc' = "panic_connect"
          /\ UNCHANGED m_alive
  /\ UNCHANGED <<m_file, m_event, m_workspaces, m_list, m_idx, m_cmds,
                 be_vars, fn_vars, wm_vars, hy_vars>>

\* a mutant of Main_NextEvent: the closure runs for some window changes only,
\* any other event is dropped
Main_NextEvent_Filtered ==
  /\ m_pc = "waiting"
  /\ \/ /\ stream # <<>>
        /\ stream' = Tail(stream)
        /\ IF Head(stream).ok => Head(stream).change \in {"new", "close"}
           THEN /\ m_event' = Head(stream)
                /\ m_pc' = "enumerate"
           ELSE UNCHANGED <<m_event, m_pc>>
     \/ /\ stream = <<>>
        /\ ~m_alive
        /\ m_pc' = "exited"
        /\ UNCHANGED <<m_event, stream>>
  /\ UNCHANGED <<m_alive, m_file, m_workspaces, m_list, m_idx, m_cmds,
                 be_up, be_ws, fn_vars, wm_vars, hy_vars>>

\* for_each takes the next item of the stream: an event or a read error runs
\* the closure, the end of the stream ends for_each and main returns
Main_NextEvent ==
  /\ m_pc = "waiting"
  /\ \/ /\ stream # <<>>
        /\ m_event' = Head(stream)
        /\ stream' = Tail(stream)
        /\ m_pc' = "enumerate"
     \/ /\ stream = <<>>
        /\ ~m_alive
        /\ m_event' = ErrItem
        /\ m_pc' = "enumerate"
        /\ UNCHANGED stream
     \/ /\ stream = <<>>
        /\ ~m_alive
        /\ m_pc' = "exited"
        /\ UNCHANGED <<m_event, stream>>
  /\ UNCHANGED <<m_alive, m_file, m_workspaces, m_list, m_idx, m_cmds,
                 be_up, be_ws, fn_vars, wm_vars, hy_vars>>

\* the closure, lines 157-160: the configuration, get_tree().unwrap(), and
\* workspaces_in_node with its unwrap of every workspace name
Main_Enumerate ==
  /\ m_pc = "enumerate"
  /\ IF ~m_alive
     THEN /\ m_pc' = "panic_get_tree"
          /\ UNCHANGED m_workspaces
     ELSE \E tree \in TreeReplies(be_ws) :
            LET workspaces == workspaces_in_node(tree)
            IN IF workspaces.ok
               THEN /\ m_workspaces' = workspaces
                    /\ m_pc' = "get_workspaces"
               ELSE /\ m_pc' = "panic_name"
                    /\ UNCHANGED m_workspaces
  /\ UNCHANGED <<m_alive, m_file, m_event, m_list, m_idx, m_cmds, be_vars, fn_vars, wm_vars, hy_vars>>

\* rename_workspaces, lines 101-103: wm.get_workspaces().unwrap()
Main_GetWorkspaces ==
  /\ m_pc = "get_workspaces"
  /\ IF ~m_alive
     THEN /\ m_pc' = "panic_get_workspaces"
          /\ UNCHANGED <<m_list, m_idx>>
     ELSE /\ m_list' = get_workspaces(be_ws)
          /\ m_idx' = 1
          /\ m_pc' = "rename"
  /\ UNCHANGED <<m_alive, m_file, m_event, m_workspaces, m_cmds, be_vars, fn_vars, wm_vars, hy_vars>>

\* a mutant of new_name: the separator is written for an empty label too
new_name_AlwaysSeparator(num, windows, icon_mappings, fallback) ==
  decimal(num) \o <<":", " ">> \o pretty_windows(windows, icon_mappings, fallback)

\* the name rename_workspaces gives a workspace, lines 106-111
new_name(num, windows, icon_mappings, fallback) ==
  LET label == pretty_windows(windows, icon_mappings, fallback)
  IN IF label = <<>> THEN decimal(num)
     ELSE decimal(num) \o <<":", " ">> \o label

\* rename_workspaces, lines 104-116, for one workspace of the list: the map is
\* indexed by the name (a panic when the name is not a key), the command is
\* sent, and only the failure of the call itself is looked at (unwrap), not
\* the sub-results
Main_Rename ==
  /\ m_pc = "rename"
  /\ m_idx <= Len(m_list)
  /\ LET name == m_list[m_idx].name
         config == visit_map(m_file).config
     IN IF name \notin DOMAIN m_workspaces.map
        THEN /\ m_pc' = "panic_index"
             /\ UNCHANGED <<m_idx, m_cmds, be_ws>>
        ELSE IF ~m_alive
        THEN /\ m_pc' = "panic_run_command"
             /\ UNCHANGED <<m_idx, m_cmds, be_ws>>
        ELSE LET new == new_name(m_list[m_idx].num, m_workspaces.map[name],
                                 get_icon_mappings(config), get_fallback_icon(config))
                 reply == run_rename(be_ws, name, new)
             IN /\ be_ws' = reply.ws
                /\ m_cmds' = Append(m_cmds, [old |-> name, new |-> new, ok |-> reply.ok])
                /\ m_idx' = m_idx + 1
                /\ UNCHANGED m_pc
  /\ UNCHANGED <<m_alive, m_file, m_event, m_workspaces, m_list, be_up, stream, fn_vars, wm_vars, hy_vars>>

\* the closure ends, line 162: sleep, then for_each asks for the next item
Main_Sleep ==
  /\ m_pc = "rename"
  /\ m_idx > Len(m_list)
  /\ m_pc' = "waiting"
  /\ m_event' = NoEvent
  /\ m_workspaces' = IdleMap
  /\ m_list' = <<>>
  /\ m_idx' = 0
  /\ m_cmds' = <<>>
  /\ UNCHANGED <<m_alive, m_file, be_vars, fn_vars, wm_vars, hy_vars>>

Main == Main_Connect \/ Main_NextEvent \/ Main_Enumerate \/ Main_GetWorkspaces
          \/ Main_Rename \/ Main_Sleep

Session == BE_OpenWindow \/ BE_CloseWindow \/ BE_WindowEvent \/ BE_AddWorkspace
             \/ BE_RemoveWorkspace \/ BE_FocusWorkspace \/ BE_Down

-----------------------------------------------------------------------------
(* window_manager.rs: connect and wait_for_event of the two backends *)

\* Option<EnforceWindowManager>
Enforce == {"None", "SwayOrI3", "Hyprland"}

\* how far a connect to sway / i3 gets: "down" Connection::new fails, "one"
\* the second Connection::new fails, "two" subscribe fails, "up" all succeed
SwayReach == {"down", "one", "two", "up"}

\* SwayOrI3::connect: conns is the number of connections it opened
SwayOrI3_connect(enforce, reach) ==
  IF enforce \in {"None", "SwayOrI3"}
  THEN [ok |-> reach = "up",
        conns |-> CASE reach = "down" -> 0
                    [] reach = "one" -> 1
                    [] OTHER -> 2]
  ELSE [ok |-> FALSE, conns |-> 0]

\* Hyprland::connect: queries is the number of Version::get calls, threads the
\* number of threads spawned
Hyprland_connect(enforce, up) ==
  IF enforce \in {"None", "Hyprland"}
  THEN IF up THEN [ok |-> TRUE, queries |-> 1, threads |-> 1]
       ELSE [ok |-> FALSE, queries |-> 1, threads |-> 0]
  ELSE [ok |-> FALSE, queries |-> 0, threads |-> 0]

ConnectResult(handle, called, conns, queries, threads) ==
  [handle |-> handle, called |-> called, conns |-> conns,
   queries |-> queries, threads |-> threads]

\* a mutant of WindowManager::connect: the forced backend is tried first and
\* the other one after it
WindowManager_connect_FallsThrough(enforce, reach, up) ==
  LET s == SwayOrI3_connect("None", reach)
      h == Hyprland_connect("None", up)
  IN IF enforce = "Hyprland"
     THEN IF h.ok
          THEN ConnectResult("Hyprland", <<"Hyprland">>, 0, h.queries, h.threads)
          ELSE ConnectResult(IF s.ok THEN "SwayOrI3" ELSE "none",
                             <<"Hyprland", "SwayOrI3">>, s.conns, h.queries, h.threads)
     ELSE IF s.ok
          THEN ConnectResult("SwayOrI3", <<"SwayOrI3">>, s.conns, 0, 0)
          ELSE ConnectResult(IF h.ok THEN "Hyprland" ELSE "none",
                             <<"SwayOrI3", "Hyprland">>, s.conns, h.queries, h.threads)

\* WindowManager::connect: the variant connected to ("none" for Err), the
\* connects it called in order, and what they touched
WindowManager_connect(enforce, reach, up) ==
  LET s == SwayOrI3_connect(enforce, reach)
      h == Hyprland_connect(enforce, up)
  IN CASE enforce = "SwayOrI3" ->
            ConnectResult(IF s.ok THEN "SwayOrI3" ELSE "none",
                          <<"SwayOrI3">>, s.conns, 0, 0)
       [] enforce = "Hyprland" ->
            ConnectResult(IF h.ok THEN "Hyprland" ELSE "none",
                          <<"Hyprland">>, 0, h.queries, h.threads)
       [] OTHER ->
            IF s.ok
            THEN ConnectResult("SwayOrI3", <<"SwayOrI3">>, s.conns, 0, 0)
            ELSE ConnectResult(IF h.ok THEN "Hyprland" ELSE "none",
                               <<"SwayOrI3", "Hyprland">>,
                               s.conns, h.queries, h.threads)

NoConnect ==
  [op |-> "none", enforce |-> "None", reach |-> "down", up |-> FALSE,
   result |-> ConnectResult("none", <<>>, 0, 0, 0)]

\* the variables of the caller before it has called anything
CallerIdle ==
  /\ wm_handle = "none"
  /\ wm_last = NoConnect
  /\ wm_events = <<>>
  /\ wm_open = FALSE
  /\ wm_chan = 0
  /\ wm_listener = FALSE
  /\ wm_orphans = 0
  /\ wm_result = "none"
  /\ wm_fired = 0
  /\ wm_received = 0

WmIdle == CallerIdle /\ sway_up = FALSE /\ hypr_up = FALSE

WmInit ==
  /\ CallerIdle
  /\ sway_up \in BOOLEAN
  /\ hypr_up \in BOOLEAN

\* what a connect leaves behind: the handle, an open and empty event stream
\* for sway / i3, a running listener and an empty channel for Hyprland
Connected(op, enforce, reach, r) ==
  /\ wm_last' = [op |-> op, enforce |-> enforce, reach |-> reach, up |-> hypr_up,
                 result |-> r]
  /\ wm_handle' = r.handle
  /\ wm_events' = <<>>
  /\ wm_open' = (r.handle = "SwayOrI3")
  /\ wm_chan' = 0
  /\ wm_listener' = (r.threads = 1)
  /\ wm_result' = "none"
  /\ wm_fired' = 0
  /\ wm_received' = 0
  /\ UNCHANGED <<sway_up, hypr_up, wm_orphans, fn_vars, be_vars, m_vars, hy_vars>>

\* the caller has no handle and calls WindowManager::connect(enforce)
WM_Connect ==
  /\ wm_handle = "none"
  /\ \E enforce \in Enforce :
     \E reach \in (IF sway_up THEN SwayReach \ {"down"} ELSE {"down"}) :
       Connected("WindowManager::connect", enforce, reach,
                 WindowManager_connect(enforce, reach, hypr_up))

\* the caller has no handle and calls SwayOrI3::connect(enforce)
WM_ConnectSwayOrI3 ==
  /\ wm_handle = "none"
  /\ \E enforce \in Enforce :
     \E reach \in (IF sway_up THEN SwayReach \ {"down"} ELSE {"down"}) :
       LET s == SwayOrI3_connect(enforce, reach)
       IN Connected("SwayOrI3::connect", enforce, reach,
                    ConnectResult(IF s.ok THEN "SwayOrI3" ELSE "none",
                                  <<"SwayOrI3">>, s.conns, 0, 0))

\* the caller has no handle and calls Hyprland::connect(enforce)
WM_ConnectHyprland ==
  /\ wm_handle = "none"
  /\ \E enforce \in Enforce :
       LET h == Hyprland_connect(enforce, hypr_up)
       IN Connected("Hyprland::connect", enforce, "down",
                    ConnectResult(IF h.ok THEN "Hyprland" ELSE "none",
                                  <<"Hyprland">>, 0, h.queries, h.threads))

\* SwayOrI3::wait_for_event: Ok for every event the stream yields, Err for a
\* read error and for the end of the stream
SwayOrI3_wait_for_event(next) ==
  CASE next = "none" -> "err"
    [] next = "error" -> "err"
    [] OTHER -> "ok"

\* Hyprland::wait_for_event: rx.recv(), Err when the channel is closed
Hyprland_wait_for_event(recv) ==
  IF recv = "closed" THEN "err" ELSE "ok"

\* the caller calls wait_for_event on its handle and the call returns
WM_WaitForEvent ==
  /\ \/ /\ wm_handle = "SwayOrI3"
        /\ \/ /\ wm_events # <<>>
              /\ wm_result' = SwayOrI3_wait_for_event(
                                IF Head(wm_events).ok THEN "event" ELSE "error")
              /\ wm_events' = Tail(wm_events)
           \/ /\ wm_events = <<>>
              /\ ~wm_open
              /\ \E next \in {"none", "error"} :
                   wm_result' = SwayOrI3_wait_for_event(next)
              /\ UNCHANGED wm_events
        /\ UNCHANGED <<wm_chan, wm_received>>
     \/ /\ wm_handle = "Hyprland"
        /\ \/ /\ wm_chan > 0
              /\ wm_result' = Hyprland_wait_for_event("unit")
              /\ wm_chan' = wm_chan - 1
           \/ /\ wm_chan = 0
              /\ ~wm_listener
              /\ wm_result' = Hyprland_wait_for_event("closed")
              /\ UNCHANGED wm_chan
        /\ wm_received' = IF wm_result' = "ok" THEN wm_received + 1 ELSE wm_received
        /\ UNCHANGED wm_events
  /\ UNCHANGED <<sway_up, hypr_up, wm_handle, wm_last, wm_open, wm_listener,
                 wm_orphans, wm_fired, fn_vars, be_vars, m_vars, hy_vars>>

\* the caller drops its handle: the connections of SwayOrI3 are closed, the
\* receiver of Hyprland is dropped and its listener thread runs on
WM_Drop ==
  /\ wm_handle # "none"
  /\ wm_listener => wm_orphans < MaxOrphans
  /\ wm_handle' = "none"
  /\ wm_events' = <<>>
  /\ wm_open' = FALSE
  /\ wm_chan' = 0
  /\ wm_listener' = FALSE
  /\ wm_orphans' = IF wm_listener THEN wm_orphans + 1 ELSE wm_orphans
  /\ wm_result' = "none"
  /\ wm_fired' = 0
  /\ wm_received' = 0
  /\ UNCHANGED <<sway_up, hypr_up, wm_last, fn_vars, be_vars, m_vars, hy_vars>>

\* sway / i3 reports a window event, or the read of one fails
Sway_Event ==
  /\ sway_up
  /\ wm_handle = "SwayOrI3"
  /\ wm_open
  /\ Len(wm_events) < MaxQueue
  /\ \E item \in {Event("window", c) : c \in WindowChanges} \cup {ErrItem} :
       wm_events' = Append(wm_events, item)
  /\ UNCHANGED <<sway_up, hypr_up, wm_handle, wm_last, wm_open, wm_chan,
                 wm_listener, wm_orphans, wm_result, wm_fired, wm_received, fn_vars, be_vars, m_vars, hy_vars>>

\* a mutant of Hypr_Hook: a hook fired while a notification is waiting is
\* merged into it
Hypr_Hook_Merged ==
  /\ hypr_up
  /\ wm_listener \/ wm_orphans > 0
  /\ wm_listener => wm_fired < MaxHooks
  /\ wm_chan' = IF wm_listener THEN 1 ELSE wm_chan
  /\ wm_fired' = IF wm_listener THEN wm_fired + 1 ELSE wm_fired
  /\ wm_orphans' = 0
  /\ UNCHANGED <<sway_up, hypr_up, wm_handle, wm_last, wm_events, wm_open,
                 wm_listener, wm_result, wm_received, fn_vars, be_vars, m_vars, hy_vars>>

\* Hyprland fires a hook (window opened, closed, moved, layer opened, layer
\* closed): the handler of the handle's listener sends a unit; the handler of
\* a listener whose receiver is dropped panics on the failed send
Hypr_Hook ==
  /\ hypr_up
  /\ wm_listener \/ wm_orphans > 0
  /\ wm_listener => (wm_chan < MaxChan /\ wm_fired < MaxHooks)
  /\ wm_chan' = IF wm_listener THEN wm_chan + 1 ELSE wm_chan
  /\ wm_fired' = IF wm_listener THEN wm_fired + 1 ELSE wm_fired
  /\ wm_orphans' = 0
  /\ UNCHANGED <<sway_up, hypr_up, wm_handle, wm_last, wm_events, wm_open,
                 wm_listener, wm_result, wm_received, fn_vars, be_vars, m_vars, hy_vars>>

\* sway / i3 starts or ends; at its end its connections are closed
Sway_Toggle ==
  /\ sway_up' = ~sway_up
  /\ wm_open' = IF sway_up THEN FALSE ELSE wm_open
  /\ UNCHANGED <<hypr_up, wm_handle, wm_last, wm_events, wm_chan, wm_listener,
                 wm_orphans, wm_result, wm_fired, wm_received, fn_vars, be_vars, m_vars, hy_vars>>

\* Hyprland starts or ends; at its end start_listener returns an error in
\* every listener thread and the unwrap ends the thread
Hypr_Toggle ==
  /\ hypr_up' = ~hypr_up
  /\ wm_listener' = IF hypr_up THEN FALSE ELSE wm_listener
  /\ wm_orphans' = IF hypr_up THEN 0 ELSE wm_orphans
  /\ UNCHANGED <<sway_up, wm_handle, wm_last, wm_events, wm_open, wm_chan,
                 wm_result, wm_fired, wm_received, fn_vars, be_vars, m_vars, hy_vars>>

WmNext ==
  \/ WM_Connect \/ WM_ConnectSwayOrI3 \/ WM_ConnectHyprland
  \/ WM_WaitForEvent \/ WM_Drop
  \/ Sway_Event \/ Hypr_Hook \/ Sway_Toggle \/ Hypr_Toggle

-----------------------------------------------------------------------------
(* Hyprland::get_windows_in_each_workspace and the session it asks *)

NoSnapshot == [workspaces |-> <<>>, clients |-> <<>>]

\* the variables of the Hyprland session when it is not looked at
HyIdle ==
  /\ hy_up = FALSE
  /\ hy_ws = {}
  /\ hy_clients = <<>>
  /\ hy_pc = "idle"
  /\ hy_snapshot = NoSnapshot
  /\ hy_result = IdleMap

\* hyprland::data::Client, the fields used: at is <<x, y>>
Client(workspace_id, at, title, class) ==
  [workspace_id |-> workspace_id, at |-> at, title |-> title, class |-> class]

\* Workspaces::get: id and number of windows of every workspace, by id
Workspaces_get(ws, clients) ==
  LET ids == {id \in 1..MaxHyWs : id \in ws}
      RECURSIVE list(_)
      list(id) ==
        IF id > MaxHyWs THEN <<>>
        ELSE (IF id \in ids
              THEN <<[id |-> id,
                      windows |-> Cardinality({i \in 1..Len(clients) :
                                                 clients[i].workspace_id = id})]>>
              ELSE <<>>) \o list(id + 1)
  IN list(1)

\* Window.exists
exists(self) ==
  self.name.some \/ self.app_id.some \/ self.window_properties_class.some

\* the Window made of a client: an empty title or class is None, no app_id
Window_of_client(client) ==
  Window(IF client.title = <<>> THEN None ELSE Some(client.title),
         None,
         IF client.class = <<>> THEN None ELSE Some(client.class))

\* PositionLess with the horizontal coordinate compared first
PositionLess_XFirst(l, r) == l[1] < r[1] \/ (l[1] = r[1] /\ l[2] < r[2])

\* (l, _) comes before (r, _) in the order of sort_by on (y, x)
PositionLess(l, r) == l[2] < r[2] \/ (l[2] = r[2] /\ l[1] < r[1])

\* slice::sort_by on the position: a stable sort
RECURSIVE sort_by_position(_)
sort_by_position(v) ==
  IF v = <<>> THEN <<>>
  ELSE LET rest == sort_by_position(Tail(v))
           before == SelectSeq(rest, LAMBDA c : PositionLess(c.at, Head(v).at))
           after == SelectSeq(rest, LAMBDA c : ~PositionLess(c.at, Head(v).at))
       IN before \o <<Head(v)>> \o after

\* Hyprland::get_windows_in_each_workspace, lines 212-262, on the replies of
\* Workspaces::get and Clients::get: the clients grouped by workspace id, each
\* group sorted by position and without the windows that have no identity,
\* then the workspaces with no window; collect() lets a later entry of the
\* same key replace an earlier one
Hyprland_get_windows_in_each_workspace(workspaces, clients) ==
  LET empty_workspaces == {workspaces[i].id : i \in
                             {j \in 1..Len(workspaces) : workspaces[j].windows = 0}}
      groups == {clients[i].workspace_id : i \in 1..Len(clients)}
      group(k) == SelectSeq(clients, LAMBDA c : c.workspace_id = k)
      windows(k) ==
        LET sorted == sort_by_position(group(k))
        IN SelectSeq([i \in 1..Len(sorted) |-> Window_of_client(sorted[i])], exists)
      keys == groups \cup empty_workspaces
      id_of(key) == CHOOSE k \in keys : decimal(k) = key
  IN [key \in {decimal(k) : k \in keys} |->
        IF id_of(key) \in empty_workspaces THEN <<>> ELSE windows(id_of(key))]

\* the clients a Hyprland session can have
ClientPool ==
  {Client(id, c[1], c[2], c[2]) :
     id \in 1..MaxHyWs,
     c \in {<<<<0, 1>>, S_firefox>>, <<<<1, 0>>, S_foot>>,
            <<<<0, 0>>, S_firefox>>, <<<<0, 0>>, S_foot>>, <<<<0, 0>>, <<>>>>}}

HyInit ==
  /\ hy_up = TRUE
  /\ hy_ws = {1}
  /\ hy_clients = <<>>
  /\ hy_pc = "idle"
  /\ hy_snapshot = NoSnapshot
  /\ hy_result = IdleMap

\* a window opens on a workspace of the session
Hy_OpenClient ==
  /\ hy_up
  /\ Len(hy_clients) < MaxClients
  /\ \E c \in ClientPool :
       /\ c.workspace_id \in hy_ws
       /\ hy_clients' = Append(hy_clients, c)
  /\ UNCHANGED <<hy_up, hy_ws, hy_pc, hy_snapshot, hy_result,
                 fn_vars, be_vars, m_vars, wm_vars>>

\* a window closes
Hy_CloseClient ==
  /\ hy_up
  /\ \E i \in 1..Len(hy_clients) :
       hy_clients' = SubSeq(hy_clients, 1, i - 1)
                       \o SubSeq(hy_clients, i + 1, Len(hy_clients))
  /\ UNCHANGED <<hy_up, hy_ws, hy_pc, hy_snapshot, hy_result,
                 fn_vars, be_vars, m_vars, wm_vars>>

\* a workspace is created, or a workspace without windows goes away
Hy_ToggleWorkspace ==
  /\ hy_up
  /\ \E id \in 1..MaxHyWs :
       IF id \in hy_ws
       THEN /\ \A i \in 1..Len(hy_clients) : hy_clients[i].workspace_id # id
            /\ hy_ws' = hy_ws \ {id}
       ELSE hy_ws' = hy_ws \cup {id}
  /\ UNCHANGED <<hy_up, hy_clients, hy_pc, hy_snapshot, hy_result,
                 fn_vars, be_vars, m_vars, wm_vars>>

\* Hyprland ends: its workspaces and clients are gone
Hy_Down ==
  /\ hy_up
  /\ hy_up' = FALSE
  /\ hy_ws' = {}
  /\ hy_clients' = <<>>
  /\ UNCHANGED <<hy_pc, hy_snapshot, hy_result, fn_vars, be_vars, m_vars, wm_vars>>

\* get_windows_in_each_workspace, line 212: Workspaces::get().context(..)?
Hy_GetWorkspaces ==
  /\ hy_pc = "idle"
  /\ IF hy_up
     THEN /\ hy_snapshot' = [workspaces |-> Workspaces_get(hy_ws, hy_clients),
                             clients |-> <<>>]
          /\ hy_pc' = "workspaces"
          /\ UNCHANGED hy_result
     ELSE /\ hy_result' = [ok |-> FALSE, map |-> EmptyMap]
          /\ hy_pc' = "returned"
          /\ UNCHANGED hy_snapshot
  /\ UNCHANGED <<hy_up, hy_ws, hy_clients, fn_vars, be_vars, m_vars, wm_vars>>

\* get_windows_in_each_workspace, lines 221-262: Clients::get().context(..)?
\* and the map
Hy_GetClients ==
  /\ hy_pc = "workspaces"
  /\ IF hy_up
     THEN /\ hy_snapshot' = [hy_snapshot EXCEPT !.clients = hy_clients]
          /\ hy_result' =
               [ok |-> TRUE,
                map |-> Hyprland_get_windows_in_each_workspace(
                          hy_snapshot.workspaces, hy_clients)]
     ELSE /\ hy_result' = [ok |-> FALSE, map |-> EmptyMap]
          /\ UNCHANGED hy_snapshot
  /\ hy_pc' = "returned"
  /\ UNCHANGED <<hy_up, hy_ws, hy_clients, fn_vars, be_vars, m_vars, wm_vars>>

\* the caller is done with the map and may call again
Hy_Return ==
  /\ hy_pc = "returned"
  /\ hy_up
  /\ hy_pc' = "idle"
  /\ hy_snapshot' = NoSnapshot
  /\ hy_result' = IdleMap
  /\ UNCHANGED <<hy_up, hy_ws, hy_clients, fn_vars, be_vars, m_vars, wm_vars>>

HyNext ==
  \/ Hy_OpenClient \/ Hy_CloseClient \/ Hy_ToggleWorkspace \/ Hy_Down
  \/ Hy_GetWorkspaces \/ Hy_GetClients \/ Hy_Return

-----------------------------------------------------------------------------
(* The label formatting pipeline, one function per step *)

FnInit ==
  /\ fn_pc = "input"
  /\ \E input \in FnInputs : fn_file = input[1] /\ fn_node = input[2]
  /\ fn_config = [ok |-> FALSE, config |-> Config_default]
  /\ fn_windows = <<>>
  /\ fn_icons = <<>>
  /\ fn_label = <<>>
  /\ fn_separator = None
  /\ MainIdle
  /\ m_file = <<>>
  /\ be_up = FALSE
  /\ be_ws = <<>>
  /\ stream = <<>>
  /\ WmIdle
  /\ HyIdle

\* Config::from_str: toml::from_str drives Visitor::visit_map
Fn_LoadConfig ==
  /\ fn_pc = "input"
  /\ fn_config' = visit_map(fn_file)
  /\ fn_pc' = IF visit_map(fn_file).ok THEN "loaded" ELSE "config_error"
  /\ UNCHANGED <<fn_file, fn_node, fn_windows, fn_icons, fn_label, fn_separator,
               be_vars, m_vars, wm_vars, hy_vars>>

\* node.windows_in_node() on a workspace node
Fn_WindowsInNode ==
  /\ fn_pc = "loaded"
  /\ fn_windows' = NodeExt_windows_in_node(fn_node)
  /\ fn_pc' = "extracted"
  /\ UNCHANGED <<fn_file, fn_node, fn_config, fn_icons, fn_label, fn_separator,
               be_vars, m_vars, wm_vars, hy_vars>>

\* pretty_window on every window of the list
Fn_PrettyWindow ==
  /\ fn_pc = "extracted"
  /\ fn_icons' = [i \in 1..Len(fn_windows) |->
                    pretty_window(fn_windows[i],
                                  get_icon_mappings(fn_config.config),
                                  get_fallback_icon(fn_config.config))]
  /\ fn_pc' = "icons"
  /\ UNCHANGED <<fn_file, fn_node, fn_config, fn_windows, fn_label, fn_separator,
               be_vars, m_vars, wm_vars, hy_vars>>

\* pretty_windows on the list
Fn_PrettyWindows ==
  /\ fn_pc = "icons"
  /\ fn_label' = pretty_windows(fn_windows,
                                get_icon_mappings(fn_config.config),
                                get_fallback_icon(fn_config.config))
  /\ fn_pc' = "formatted"
  /\ UNCHANGED <<fn_file, fn_node, fn_config, fn_windows, fn_icons, fn_separator,
               be_vars, m_vars, wm_vars, hy_vars>>

\* config.separator() on the loaded configuration
Fn_Separator ==
  /\ fn_pc = "loaded"
  /\ fn_separator' = Some(separator(fn_config.config))
  /\ fn_pc' = "separator"
  /\ UNCHANGED <<fn_file, fn_node, fn_config, fn_windows, fn_icons, fn_label,
                 be_vars, m_vars, wm_vars, hy_vars>>

FnNext ==
  \/ Fn_LoadConfig \/ Fn_WindowsInNode \/ Fn_PrettyWindow \/ Fn_PrettyWindows
  \/ Fn_Separator

SpecFn == FnInit /\ [][FnNext]_vars

\* the label formatting variables when the pipeline is not run
FnIdle ==
  /\ fn_pc = "input"
  /\ fn_file = <<>>
  /\ fn_node = <<>>
  /\ fn_config = <<>>
  /\ fn_windows = <<>>
  /\ fn_icons = <<>>
  /\ fn_label = <<>>
  /\ fn_separator = None

Init == MainInit /\ FnIdle /\ WmIdle /\ HyIdle

Next == Main \/ Session

Spec == Init /\ [][Next]_vars

\* a caller of window_manager.rs and the two backends
InitWM ==
  /\ WmInit
  /\ HyIdle
  /\ FnIdle
  /\ MainIdle
  /\ m_file = <<>>
  /\ be_up = FALSE
  /\ be_ws = <<>>
  /\ stream = <<>>

SpecWM == InitWM /\ [][WmNext]_vars

\* one caller of Hyprland::get_windows_in_each_workspace and the session
InitHy ==
  /\ HyInit
  /\ WmIdle
  /\ FnIdle
  /\ MainIdle
  /\ m_file = <<>>
  /\ be_up = FALSE
  /\ be_ws = <<>>
  /\ stream = <<>>

SpecHy == InitHy /\ [][HyNext]_vars

-----------------------------------------------------------------------------
(* Claims about icons and labels (SpecFn) *)

\* the rules of the file under check, in the order they are written in it
FileRules == SelectSeq(fn_file, LAMBDA e : e.key # S_other)

\* how often the string p occurs in s
Occurrences(s, p) ==
  Cardinality({i \in 0..(Len(s) - Len(p)) : SubSeq(s, i + 1, i + Len(p)) = p})

\* C7: the rules reach pretty_window in the order of the configuration file,
\* and the icon of a window that some rule matches is the icon of the first
\* such rule of the file, whatever later rules match as well.
C7_FirstRuleWins ==
  fn_pc \in {"icons", "formatted"} =>
    /\ get_icon_mappings(fn_config.config)
         = [i \in 1..Len(FileRules) |-> <<FileRules[i].key, FileRules[i].value>>]
    /\ \A k \in 1..Len(fn_windows) :
         LET hits == {i \in 1..Len(FileRules) :
                        matches(fn_windows[k], FileRules[i].key)}
         IN hits # {} =>
              fn_icons[k] = FileRules[CHOOSE i \in hits : \A j \in hits : i <= j].value

\* a window that two rules with different icons match has got its icon
C7_Witness ==
  /\ fn_pc = "icons"
  /\ \E k \in 1..Len(fn_windows) : \E i, j \in 1..Len(FileRules) :
       /\ i < j
       /\ matches(fn_windows[k], FileRules[i].key)
       /\ matches(fn_windows[k], FileRules[j].key)
       /\ FileRules[i].value # FileRules[j].value

\* C8: the label is made of one piece per window of the extracted list, in the
\* order of the list, each piece the window's icon and then one space; the
\* windows firefox, chromium, foot under the rules F, C, T give "F C T ".
C8_LabelInListOrder ==
  fn_pc = "formatted" =>
    LET start[i \in 1..(Len(fn_icons) + 1)] ==
          IF i = 1 THEN 0 ELSE start[i - 1] + Len(fn_icons[i - 1]) + 1
    IN /\ Len(fn_icons) = Len(fn_windows)
       /\ Len(fn_label) = start[Len(fn_icons) + 1]
       /\ \A i \in 1..Len(fn_icons) :
            /\ SubSeq(fn_label, start[i] + 1, start[i] + Len(fn_icons[i])) = fn_icons[i]
            /\ fn_label[start[i] + Len(fn_icons[i]) + 1] = " "
       /\ (fn_node = WS_FCT /\ fn_file = File_FCT) =>
            /\ fn_windows = <<W_firefox, W_chromium, W_foot>>
            /\ fn_label = <<"F", " ", "C", " ", "T", " ">>

\* the label of the windows firefox, chromium, foot has been made
C8_Witness ==
  /\ fn_pc = "formatted"
  /\ fn_node = WS_FCT
  /\ fn_file = File_FCT
  /\ Len(fn_label) = 6

\* C9: with deduplicate_icons set, an icon that two windows of the workspace
\* resolve to is in the label once.
C9_DedupOnce ==
  (fn_pc = "formatted" /\ fn_config.config.other.deduplicate_icons) =>
    \A i \in 1..Len(fn_icons) : Occurrences(fn_label, fn_icons[i]) = 1

\* the fallback icon the file under check configures, if it configures one
FileFallback ==
  LET tables == SelectSeq(fn_file, LAMBDA e : e.key = S_other)
  IN IF tables = <<>> THEN None ELSE tables[Len(tables)].other.fallback_icon

\* the windows of the list that no rule of the file matches
Unmatched ==
  {k \in 1..Len(fn_windows) :
     \A i \in 1..Len(FileRules) : ~matches(fn_windows[k], FileRules[i].key)}

Children(n) == n.nodes \o n.floating_nodes

\* the node at the end of a path of child positions
RECURSIVE NodeAt(_, _)
NodeAt(n, path) ==
  IF path = <<>> THEN n ELSE NodeAt(Children(n)[Head(path)], Tail(path))

\* the paths from a node to the nodes beneath it, at any depth
RECURSIVE PathsBeneath(_)
PathsBeneath(n) ==
  UNION {{<<i>>} \cup {<<i>> \o p : p \in PathsBeneath(Children(n)[i])} :
           i \in 1..Len(Children(n))}

\* a node has an identity field
HasIdentity(n) == n.name.some \/ n.app_id.some \/ n.window_properties_class.some

\* the nodes beneath the workspace under check that are containers or
\* floating containers with an identity field
WindowNodes ==
  {p \in PathsBeneath(fn_node) :
     /\ NodeAt(fn_node, p).node_type \in {"Con", "FloatingCon"}
     /\ HasIdentity(NodeAt(fn_node, p))}

\* the window of a node
WindowOf(n) == Window(n.name, n.app_id, n.window_properties_class)

\* C18: the extracted window list of a workspace node has exactly the
\* container and floating-container nodes beneath it, through ordinary and
\* floating children at any depth, that have an identity field: every such
\* node once, with its fields, and no window without identity.
C18_ExtractionExact ==
  fn_pc \in {"extracted", "icons", "formatted"} =>
    /\ Len(fn_windows) = Cardinality(WindowNodes)
    /\ \A w \in {WindowOf(NodeAt(fn_node, p)) : p \in WindowNodes}
               \cup {fn_windows[k] : k \in 1..Len(fn_windows)} :
         Cardinality({k \in 1..Len(fn_windows) : fn_windows[k] = w})
           = Cardinality({p \in WindowNodes : WindowOf(NodeAt(fn_node, p)) = w})
    /\ \A k \in 1..Len(fn_windows) : fn_windows[k] # W_noid

\* the windows of the deep workspace node have been extracted: a named split
\* container, windows at depth two under ordinary and floating children, and
\* a window without identity left out
C18_Witness ==
  /\ fn_pc = "extracted"
  /\ fn_node = WS_deep
  /\ Len(fn_windows) = 4

-----------------------------------------------------------------------------
(* Claims about the process (Spec) *)

\* the events the classifier of the specification lets through
InTriggerSet(e) ==
  \/ e.class = "window" /\ e.change \in {"new", "close", "title", "move", "urgent", "mark"}
  \/ e.class = "workspace" /\ e.change = "focus"

C2_StreamEndDoesNotExit ==
  ~(m_pc = "exited" /\ ~m_alive /\ stream = <<>>)

\* C3: a connect that fails is not fatal.
C3_ConnectFailureNotFatal ==
  m_pc # "panic_connect"

\* C5: the extracted map has no key equal to the reserved scratchpad name.
C5_NoScratchpadKey ==
  S_scratch \notin DOMAIN m_workspaces.map

\* C6: after a rename command that failed, no further rename command of the
\* pass is sent.
C6_NoRenameAfterFailure ==
  \A i \in 1..Len(m_cmds) : \A j \in 1..Len(m_cmds) : i < j => m_cmds[i].ok

RenameableKeys == (DOMAIN m_workspaces.map) \ {S_scratch}

\* C12: when the rename commands are made, the keys of the extracted map (the
\* scratchpad key of C5 set aside) are the workspaces the backend reports, and
\* the rename pass never looks up a workspace that the map does not have.
C12_KeySetInvariant ==
  /\ m_pc = "rename" =>
       RenameableKeys = {m_list[i].name : i \in 1..Len(m_list)}
  /\ m_pc # "panic_index"

\* s begins with p
StartsWith(s, p) == Len(s) >= Len(p) /\ SubSeq(s, 1, Len(p)) = p

\* the ordinal token of a name: what stands before the first ":" of it
OrdinalToken(name) ==
  LET colons == {i \in 1..Len(name) : name[i] = ":"}
  IN IF colons = {} THEN name
     ELSE SubSeq(name, 1, (CHOOSE i \in colons : \A j \in colons : i <= j) - 1)

\* C13: a rename gives a workspace a name that begins with the ordinal token
\* of the name it had, followed by the separator if anything follows, so that
\* the ordinal token is the same before and after the rename; and it changes
\* the number of no workspace.
C13_StableOrdinal ==
  [][Len(m_cmds') = Len(m_cmds) + 1 =>
       LET c == m_cmds'[Len(m_cmds')]
       IN /\ OrdinalToken(c.new) = OrdinalToken(c.old)
          /\ Len(c.new) > Len(OrdinalToken(c.old)) =>
               StartsWith(c.new, OrdinalToken(c.old) \o <<":", " ">>)
          /\ Len(be_ws') = Len(be_ws)
          /\ \A i \in 1..Len(be_ws) : be_ws'[i].num = be_ws[i].num]_vars

\* C14: a rename pass that has come to its end has sent exactly one rename
\* command for every workspace of the extracted map (the scratchpad key of C5
\* set aside).
C14_OneRenamePerKey ==
  (m_pc = "rename" /\ m_idx > Len(m_list)) =>
    \A k \in RenameableKeys :
      Cardinality({i \in 1..Len(m_cmds) : m_cmds[i].old = k}) = 1

\* C15: a tree query that fails does not end the process.
C15_FailedEnumerationReconnects ==
  ~(m_pc = "panic_get_tree" /\ m_cmds = <<>>)

\* C19: a workspace node without a name in the tree does not end the process.
C19_NamelessKeepsRunning ==
  ~(m_pc = "panic_name" /\ m_alive)

-----------------------------------------------------------------------------
(* Claims about window_manager.rs (SpecWM) *)

\* C4: a forced backend is the only one whose connect is called, and the other
\* backend is not touched (no connection opened, no query, no thread); with
\* none forced, sway / i3 is tried first and Hyprland only after it failed; the
\* handle is the first backend that connected, and an error when none did. A
\* connect of a backend that the preference excludes fails and touches nothing.
C4_BackendSelection ==
  LET r == wm_last.result
      swayOk == wm_last.reach = "up"
  IN /\ (wm_last.op = "WindowManager::connect" /\ wm_last.enforce = "SwayOrI3") =>
          /\ r.called = <<"SwayOrI3">>
          /\ r.queries = 0 /\ r.threads = 0
          /\ r.handle = IF swayOk THEN "SwayOrI3" ELSE "none"
     /\ (wm_last.op = "WindowManager::connect" /\ wm_last.enforce = "Hyprland") =>
          /\ r.called = <<"Hyprland">>
          /\ r.conns = 0
          /\ r.handle = IF wm_last.up THEN "Hyprland" ELSE "none"
     /\ (wm_last.op = "WindowManager::connect" /\ wm_last.enforce = "None") =>
          /\ r.called = IF swayOk THEN <<"SwayOrI3">> ELSE <<"SwayOrI3", "Hyprland">>
          /\ swayOk => (r.queries = 0 /\ r.threads = 0)
          /\ r.handle = IF swayOk THEN "SwayOrI3"
                        ELSE IF wm_last.up THEN "Hyprland" ELSE "none"
     /\ (wm_last.op = "SwayOrI3::connect" /\ wm_last.enforce = "Hyprland") =>
          (r.handle = "none" /\ r.conns = 0)
     /\ (wm_last.op = "Hyprland::connect" /\ wm_last.enforce = "SwayOrI3") =>
          (r.handle = "none" /\ r.queries = 0 /\ r.threads = 0)
     /\ wm_handle \in {"none", r.handle}
     /\ wm_listener => wm_handle = "Hyprland"

\* sway / i3 was forced and did not connect while Hyprland was reachable: the
\* connect failed and Hyprland was left alone
C4_Witness ==
  /\ wm_last.op = "WindowManager::connect"
  /\ wm_last.enforce = "SwayOrI3"
  /\ wm_last.reach # "up"
  /\ wm_last.up
  /\ wm_last.result.handle = "none"

\* the listener threads that are running
ListenerThreads == (IF wm_listener THEN 1 ELSE 0) + wm_orphans

\* C16: at every moment at most one listener thread is running, and one is
\* running only while the handle is the Hyprland variant.
C16_AtMostOneListener ==
  /\ ListenerThreads <= 1
  /\ ListenerThreads > 0 => wm_handle = "Hyprland"

\* C17: of the hooks the listener of a Hyprland handle was called for, every
\* one is either waiting in the channel or has made one wait_for_event return
\* Ok, none is lost and none is counted twice; a wait_for_event that returns
\* Ok takes exactly one notification, and it returns Ok whenever one waits.
C17_EveryHookDeliveredOnce ==
  /\ [](wm_handle = "Hyprland" => wm_fired = wm_received + wm_chan)
  /\ [][(wm_handle = "Hyprland" /\ wm_handle' = "Hyprland"
          /\ wm_received' # wm_received) =>
          (/\ wm_received' = wm_received + 1
           /\ wm_chan' = wm_chan - 1
           /\ wm_result' = "ok")]_vars
  /\ [][(wm_handle = "Hyprland" /\ wm_handle' = "Hyprland" /\ wm_chan > 0
          /\ wm_result' # wm_result) => wm_result' = "ok"]_vars

\* two hooks fired before the caller waited, and one of the two notifications
\* has been received since
C17_Witness ==
  /\ wm_handle = "Hyprland"
  /\ wm_fired = 2
  /\ wm_received = 1
  /\ wm_chan = 1
  /\ wm_result = "ok"

-----------------------------------------------------------------------------
(* Claims about Hyprland::get_windows_in_each_workspace (SpecHy) *)

\* the windows of the clients of workspace id in the clients snapshot
ClientsWindows(id) ==
  LET mine == SelectSeq(hy_snapshot.clients, LAMBDA c : c.workspace_id = id)
  IN SelectSeq([i \in 1..Len(mine) |-> Window_of_client(mine[i])], exists)

\* C20: every workspace of the workspaces snapshot is a key of the returned
\* map, with an empty list when the snapshot gives it no window, and with the
\* windows of its clients otherwise, whatever the clients snapshot holds.
C20_NoWorkspaceLost ==
  (hy_pc = "returned" /\ hy_result.ok) =>
    \A i \in 1..Len(hy_snapshot.workspaces) :
      LET ws == hy_snapshot.workspaces[i]
          key == decimal(ws.id)
      IN /\ key \in DOMAIN hy_result.map
         /\ ws.windows = 0 => hy_result.map[key] = <<>>
         /\ ws.windows > 0 =>
              /\ Len(hy_result.map[key]) = Len(ClientsWindows(ws.id))
              /\ \A k \in 1..Len(hy_result.map[key]) :
                   hy_result.map[key][k] \in
                     {ClientsWindows(ws.id)[j] : j \in 1..Len(ClientsWindows(ws.id))}

\* the workspaces the workspaces snapshot reports with no window
ReportedEmpty ==
  {hy_snapshot.workspaces[i].id : i \in
     {j \in 1..Len(hy_snapshot.workspaces) : hy_snapshot.workspaces[j].windows = 0}}

\* the clients of workspace id in the clients snapshot, in the order of the reply
ClientsOf(id) == SelectSeq(hy_snapshot.clients, LAMBDA c : c.workspace_id = id)

\* the ways to list the n clients of a group: one index each, none twice
Arrangements(n) ==
  {p \in [1..n -> 1..n] : \A i, j \in 1..n : p[i] = p[j] => i = j}

\* the windows that have an identity, of the clients g listed in the order p
ListedWindows(g, p) ==
  SelectSeq([i \in 1..Len(g) |-> Window_of_client(g[p[i]])], exists)

\* position a is above position b, or level with it and to its left
Before(a, b) == a[2] < b[2] \/ (a[2] = b[2] /\ a[1] < b[1])

-----------------------------------------------------------------------------
(* Claims about Config::separator (SpecFn) *)

\* C22: the string Config::separator returned is not a substring of any
\* configured icon and not a substring of the effective fallback icon.
C22_SeparatorInNoIcon ==
  (fn_pc = "separator" /\ fn_separator.some) =>
    /\ \A i \in 1..Len(fn_config.config.mappings) :
         ~contains(fn_config.config.mappings[i][2], fn_separator.v)
    /\ ~contains(fallback_icon(fn_config.config), fn_separator.v)

-----------------------------------------------------------------------------
(* Claims about Window::matches (SpecFn) *)

\* a populated field of the window contains the pattern when case is ignored
MatchesIgnoringCase(w, pattern) ==
  \E f \in {w.name, w.app_id, w.window_properties_class} :
    f.some /\ contains(to_lowercase(f.v), to_lowercase(pattern))

\* C23: a window gets the icon of the first rule whose pattern one of its
\* populated fields (title, application id, class) contains when case is
\* ignored, and the fallback icon when there is no such rule; so the rule
\* 'Slack' gives its icon to a window of class 'Slack' or 'slack'.
C23_MatchIgnoresCase ==
  fn_pc = "icons" =>
    \A i \in 1..Len(fn_windows) :
      LET rules == get_icon_mappings(fn_config.config)
          hits == {k \in 1..Len(rules) : MatchesIgnoringCase(fn_windows[i], rules[k][1])}
      IN fn_icons[i] =
           IF hits = {} THEN get_fallback_icon(fn_config.config)
           ELSE rules[CHOOSE k \in hits : \A h \in hits : k <= h][2]

====
